---- MODULE Spec2Model ----
(***************************************************************************)
(* Model of parallel_monte_carlo_integration (src/mcintegration.cpp):      *)
(* an OpenMP fork-join region in which every thread of the team seeds its  *)
(* generator, runs GSL VEGAS on calls / num_threads samples and stores mean *)
(* and error in the slot of its thread number; after the join the caller    *)
(* averages the slots.                                                      *)
(*                                                                         *)
(* Doubles are modelled by small naturals and the two quotients are kept    *)
(* exact: result is the fraction num/den, error is sqrt(radicand)/den.      *)
(* 64-bit words are four 16-bit limbs, least significant first.             *)
(***************************************************************************)
EXTENDS Naturals, Sequences, FiniteSets

VARIABLES
    calls,        \* parameter calls (size_t): the total sample budget
    xl, xu,       \* lower and upper bounds, one coordinate per dimension
    par,          \* the parameter record {p, q}
    maxThreads,   \* what omp_get_max_threads() returns for this call
    num_threads,  \* local num_threads (0 before line 75)
    results,      \* vector<double> results(num_threads, 0.0)
    errors,       \* vector<double> errors (num_threads, 0.0)
    team,         \* threads the runtime gave to the parallel region
    wpc,          \* position of each thread inside the region
    thread_id,    \* local thread_id of each thread
    rng,          \* local rng of each thread (0 = no generator)
    state,        \* local state of each thread (0 = no grid)
    live,         \* heap objects currently allocated
    clock,        \* last reading of high_resolution_clock
    seed,         \* local seed of each thread
    budget,       \* calls argument each thread passed to the sampler
    status,       \* what the sampler returned to each thread
    sampled,      \* TRUE when the thread's sampler evaluated the integrand
    writers,      \* for each slot, the threads that stored into it
    result,       \* out-parameter result
    error,        \* out-parameter error
    pc            \* position of the calling thread

vars == <<calls, xl, xu, par, maxThreads, num_threads, results, errors, team,
          wpc, thread_id, rng, state, live, clock, seed, budget, status,
          sampled, writers, result, error, pc>>

\* ---------------------------------------------------------------- bounds
MaxThreads == 2   \* largest value of omp_get_max_threads() explored
MaxCalls == 2     \* largest total budget explored
MaxClock == 2     \* largest clock reading explored

\* ------------------------------------------------------ program constants
Dim == 3
GoldenLimb0 == 31765   \* 0x7c15
GoldenLimb1 == 32586   \* 0x7f4a
GoldenLimb2 == 31161   \* 0x79b9
GoldenLimb3 == 40503   \* 0x9e37
Golden == <<GoldenLimb0, GoldenLimb1, GoldenLimb2, GoldenLimb3>>

Threads == 0 .. MaxThreads - 1
LimbBase == 65536
Limbs == 4

\* Domains offered to the call: the unit cube of the program, the inverted
\* box lower = [0,1,0], upper = [1,0,1], and the two mixtures of them.
LowerChoices == { <<0, 0, 0>>, <<0, 1, 0>> }
UpperChoices == { <<1, 1, 1>>, <<1, 0, 1>> }

\* Means and errors a sampler run may store
MeanChoices == {0, 2}
ErrChoices == {0, 2}

\* --------------------------------------------------- 64-bit word arithmetic
RECURSIVE XorNat(_, _)
XorNat(a, b) ==
    IF a = 0 THEN b
    ELSE IF b = 0 THEN a
    ELSE (((a % 2) + (b % 2)) % 2) + (2 * XorNat(a \div 2, b \div 2))

Xor64(a, b) == [i \in 1 .. Limbs |-> XorNat(a[i], b[i])]

WordOf(n) == [i \in 1 .. Limbs |->
                 IF i = 1 THEN n % LimbBase
                 ELSE IF i = 2 THEN (n \div LimbBase) % LimbBase
                 ELSE 0]

RECURSIVE CarryInto(_, _, _)
CarryInto(a, b, i) ==
    IF i = 1 THEN 0
    ELSE (a[i - 1] + b[i - 1] + CarryInto(a, b, i - 1)) \div LimbBase

\* a + b modulo 2^64
Add64(a, b) == [i \in 1 .. Limbs |-> (a[i] + b[i] + CarryInto(a, b, i)) % LimbBase]

\* ---------------------------------------------------------- pure helpers
\* seed = now ^ (unsigned long)(thread_id + 0x9e3779b97f4a7c15ULL)
SeedOf(now, id) == Xor64(WordOf(now), Add64(WordOf(id), Golden))

\* a thread number that ignores the thread (every thread reports 0)
ThreadNumZero(w) == 0

\* omp_get_thread_num(): the w-th thread of the team has number w
ThreadNum(w) == w

\* calls / num_threads on size_t
Share(n, w) == n \div w

\* std::accumulate(v.begin(), v.end(), 0.0)
RECURSIVE Accumulate(_)
Accumulate(v) == IF v = <<>> THEN 0 ELSE Accumulate(SubSeq(v, 1, Len(v) - 1)) + v[Len(v)]

\* for (double err_i : errors) sum_sq_errors += err_i * err_i
RECURSIVE SumSqErrors(_)
SumSqErrors(v) ==
    IF v = <<>> THEN 0
    ELSE SumSqErrors(SubSeq(v, 1, Len(v) - 1)) + v[Len(v)] * v[Len(v)]

\* result = accumulate(...) / num_threads, kept as an exact fraction
CombineMean(v, w) == [num |-> Accumulate(v), den |-> w]

\* the pooled form sqrt(sum_sq_errors / num_threads) = sqrt(sum * w) / w
CombineErrorPooled(v, w) == [radicand |-> SumSqErrors(v) * w, den |-> w]

\* error = sqrt(sum_sq_errors) / num_threads, kept as sqrt(radicand) / den
CombineError(v, w) == [radicand |-> SumSqErrors(v), den |-> w]

\* gsl_monte_vegas_integrate rejects a box with xu[i] <= xl[i] for some i
\* before it samples anything
Rejected(lo, hi) == \E i \in 1 .. Dim : hi[i] <= lo[i]

\* least free heap object
Fresh(used) == CHOOSE h \in 1 .. 2 * MaxThreads + 1 :
                  h \notin used /\ \A g \in 1 .. 2 * MaxThreads + 1 : g \notin used => h <= g

InTeam(w) == w < team

\* a barrier that opens as soon as one thread of the team has arrived
BarrierFirstArrival(arrived) == \E w \in Threads : InTeam(w) /\ arrived[w] = "done"

\* the implicit barrier at the closing brace of the parallel region: it opens
\* when every thread of the team has reached it
BarrierOpen(arrived) == \A w \in Threads : InTeam(w) => arrived[w] = "done"

\* ------------------------------------------------------------------- Init
Init ==
    /\ calls \in 0 .. MaxCalls
    /\ xl \in LowerChoices
    /\ xu \in UpperChoices
    /\ par = [p |-> 1, q |-> 1]
    /\ maxThreads \in 1 .. MaxThreads
    /\ num_threads = 0
    /\ results = <<>>
    /\ errors = <<>>
    /\ team = 0
    /\ wpc = [w \in Threads |-> "out"]
    /\ thread_id = [w \in Threads |-> 0]
    /\ rng = [w \in Threads |-> 0]
    /\ state = [w \in Threads |-> 0]
    /\ live = {}
    /\ clock = 0
    /\ seed = [w \in Threads |-> WordOf(0)]
    /\ budget = [w \in Threads |-> 0]
    /\ status = [w \in Threads |-> "none"]
    /\ sampled = [w \in Threads |-> FALSE]
    /\ writers = <<>>
    /\ result = [num |-> 0, den |-> 1]
    /\ error = [radicand |-> 0, den |-> 1]
    /\ pc = "entry"

\* ------------------------------------------------------- the calling thread
\* lines 75-77
Enter ==
    /\ pc = "entry"
    /\ num_threads' = maxThreads
    /\ results' = [i \in 1 .. maxThreads |-> 0]
    /\ errors' = [i \in 1 .. maxThreads |-> 0]
    /\ writers' = [i \in 1 .. maxThreads |-> {}]
    /\ pc' = "fork"
    /\ UNCHANGED <<calls, xl, xu, par, maxThreads, team, wpc, thread_id, rng,
                   state, live, clock, seed, budget, status, sampled, result, error>>

\* line 79: the parallel construct carries no num_threads clause, so the
\* runtime forms the team; omp_get_max_threads() is only an upper bound on
\* its size (dynamic adjustment or a thread limit may give fewer threads)
Fork ==
    /\ pc = "fork"
    /\ \E t \in 1 .. num_threads :
          /\ team' = t
          /\ wpc' = [w \in Threads |-> IF w < t THEN "begin" ELSE "out"]
    /\ pc' = "parallel"
    /\ UNCHANGED <<calls, xl, xu, par, maxThreads, num_threads, results, errors,
                   thread_id, rng, state, live, clock, seed, budget, status,
                   sampled, writers, result, error>>

\* line 104: the implicit barrier closing the parallel region
Join ==
    /\ pc = "parallel"
    /\ BarrierOpen(wpc)
    /\ pc' = "combine"
    /\ UNCHANGED <<calls, xl, xu, par, maxThreads, num_threads, results, errors,
                   team, wpc, thread_id, rng, state, live, clock, seed, budget,
                   status, sampled, writers, result, error>>

\* lines 106-114
Combine ==
    /\ pc = "combine"
    /\ result' = CombineMean(results, num_threads)
    /\ error' = CombineError(errors, num_threads)
    /\ pc' = "returned"
    /\ UNCHANGED <<calls, xl, xu, par, maxThreads, num_threads, results, errors,
                   team, wpc, thread_id, rng, state, live, clock, seed, budget,
                   status, sampled, writers>>

\* ------------------------------------------------------ one thread of the team
\* lines 81-93: thread number, generator allocated and seeded from the clock
\* and the thread number, VEGAS grid allocated
Setup(w) ==
    /\ pc = "parallel" /\ InTeam(w) /\ wpc[w] = "begin"
    /\ thread_id' = [thread_id EXCEPT ![w] = ThreadNum(w)]
    /\ rng' = [rng EXCEPT ![w] = Fresh(live)]
    /\ \E now \in clock .. MaxClock :
          /\ clock' = now
          /\ seed' = [seed EXCEPT ![w] = SeedOf(now, ThreadNum(w))]
    /\ state' = [state EXCEPT ![w] = Fresh(live \cup {Fresh(live)})]
    /\ live' = live \cup {Fresh(live), Fresh(live \cup {Fresh(live)})}
    /\ wpc' = [wpc EXCEPT ![w] = "integrate"]
    /\ UNCHANGED <<calls, xl, xu, par, maxThreads, num_threads, results, errors,
                   team, budget, status, sampled, writers, result, error, pc>>

\* lines 95-100, the sampler accepts the box: it stores a mean and an error
\* through &results[thread_id] and &errors[thread_id].  What it stores is
\* the outcome of random sampling, so any pair of the choices; a budget of 0
\* is passed on unchanged and evaluates the integrand for no budgeted sample.
IntegrateOk(w) ==
    /\ pc = "parallel" /\ InTeam(w) /\ wpc[w] = "integrate"
    /\ ~Rejected(xl, xu)
    /\ budget' = [budget EXCEPT ![w] = Share(calls, num_threads)]
    /\ \E m \in MeanChoices, e \in ErrChoices :
          /\ results' = [results EXCEPT ![thread_id[w] + 1] = m]
          /\ errors' = [errors EXCEPT ![thread_id[w] + 1] = e]
    /\ writers' = [writers EXCEPT ![thread_id[w] + 1] = @ \cup {w}]
    /\ status' = [status EXCEPT ![w] = "success"]
    /\ sampled' = [sampled EXCEPT ![w] = Share(calls, num_threads) > 0]
    /\ wpc' = [wpc EXCEPT ![w] = "free"]
    /\ UNCHANGED <<calls, xl, xu, par, maxThreads, num_threads, team, thread_id,
                   rng, state, live, clock, seed, result, error, pc>>

\* lines 95-100, the sampler rejects the box.  GSL reports the error to the
\* installed error handler and, when that returns, hands back a non-zero
\* status.  Here control comes back: the call statement discards the status
\* and the slots keep their 0.0.
IntegrateFailed(w) ==
    /\ pc = "parallel" /\ InTeam(w) /\ wpc[w] = "integrate"
    /\ Rejected(xl, xu)
    /\ budget' = [budget EXCEPT ![w] = Share(calls, num_threads)]
    /\ status' = [status EXCEPT ![w] = "failed"]
    /\ wpc' = [wpc EXCEPT ![w] = "free"]
    /\ UNCHANGED <<calls, xl, xu, par, maxThreads, num_threads, results, errors,
                   team, thread_id, rng, state, live, clock, seed, sampled,
                   writers, result, error, pc>>

\* lines 95-100, the sampler rejects the box and the error handler (the
\* library default calls abort()) ends the process instead of returning
IntegrateAbort(w) ==
    /\ pc = "parallel" /\ InTeam(w) /\ wpc[w] = "integrate"
    /\ Rejected(xl, xu)
    /\ budget' = [budget EXCEPT ![w] = Share(calls, num_threads)]
    /\ status' = [status EXCEPT ![w] = "failed"]
    /\ pc' = "aborted"
    /\ UNCHANGED <<calls, xl, xu, par, maxThreads, num_threads, results, errors,
                   team, wpc, thread_id, rng, state, live, clock, seed, sampled,
                   writers, result, error>>

\* lines 102-103: grid and generator freed; the thread's locals end with the
\* block and the thread waits at the barrier
Release(w) ==
    /\ pc = "parallel" /\ InTeam(w) /\ wpc[w] = "free"
    /\ live' = live \ {state[w], rng[w]}
    /\ state' = [state EXCEPT ![w] = 0]
    /\ rng' = [rng EXCEPT ![w] = 0]
    /\ seed' = [seed EXCEPT ![w] = WordOf(0)]
    /\ wpc' = [wpc EXCEPT ![w] = "done"]
    /\ UNCHANGED <<calls, xl, xu, par, maxThreads, num_threads, results, errors,
                   team, thread_id, clock, budget, status, sampled,
                   writers, result, error, pc>>

Worker(w) ==
    \/ Setup(w)
    \/ IntegrateOk(w)
    \/ IntegrateFailed(w)
    \/ IntegrateAbort(w)
    \/ Release(w)

Next ==
    \/ Enter
    \/ Fork
    \/ Join
    \/ Combine
    \/ \E w \in Threads : Worker(w)

Spec == Init /\ [][Next]_vars

\* Every thread of the team and the calling thread keep being scheduled.
FairSpec ==
    /\ Spec
    /\ \A w \in Threads : WF_vars(Worker(w))
    /\ WF_vars(Enter \/ Fork \/ Join \/ Combine)

\* ------------------------------------------------------------ vocabulary
TeamSet == {w \in Threads : InTeam(w)}
Called == {w \in TeamSet : status[w] # "none"}
Producers == {w \in TeamSet : status[w] = "success"}
Started == {w \in TeamSet : wpc[w] # "begin"}
Seeded == {w \in TeamSet : wpc[w] \in {"integrate", "free"}}
CallEnded == pc \in {"returned", "aborted"}
Inverted(lo, hi) == \E i \in 1 .. Dim : lo[i] > hi[i]

\* sum of g[x] over the finite set S
RECURSIVE SumOver(_, _)
SumOver(S, g) ==
    IF S = {} THEN 0
    ELSE LET x == CHOOSE y \in S : TRUE IN g[x] + SumOver(S \ {x}, g)

BudgetOf == [w \in Called |-> budget[w]]
MeanOf == [w \in Producers |-> results[thread_id[w] + 1]]
ErrSqOf == [w \in Producers |-> errors[thread_id[w] + 1] * errors[thread_id[w] + 1]]
SlotErrSq == [i \in 1 .. Len(errors) |-> errors[i] * errors[i]]

\* ----------------------------------------------------------------- C1
\* C1: every worker is handed floor(N / W) samples, the samples handed out
\* sum to W * floor(N / W) <= N, the remainder goes to nobody.
C1_Orig ==
    pc \in {"combine", "returned"} =>
        /\ \A w \in Called : budget[w] = calls \div num_threads
        /\ SumOver(Called, BudgetOf) = num_threads * (calls \div num_threads)
        /\ SumOver(Called, BudgetOf) <= calls

\* ----------------------------------------------------------------- C2
\* C2: the returned mean is the arithmetic mean of the means of the workers
\* that produced a result; unwritten slots count neither in the sum nor in
\* the divisor.  (num/den = sum/k, cross-multiplied.)
C2_Orig ==
    (pc = "returned" /\ Producers # {}) =>
        result.num * Cardinality(Producers) = SumOver(Producers, MeanOf) * result.den

C4_Orig ==
    \A w \in Seeded : \A v \in Seeded :
        thread_id[w] # thread_id[v] => seed[w] # seed[v]

\* ----------------------------------------------------------------- C5
\* C5: with lower[i] > upper[i] in some dimension the call ends in a failure
\* and no worker has sampled.
C5_Orig ==
    (Inverted(xl, xu) /\ CallEnded) =>
        /\ pc # "returned"
        /\ \A w \in TeamSet : ~sampled[w]

\* ----------------------------------------------------------------- C6
\* C6: when the sampling run of any worker fails, the caller never receives
\* a (mean, error) pair.
C6_Orig ==
    pc = "returned" => \A w \in TeamSet : status[w] # "failed"

\* ----------------------------------------------------------------- C7
\* C7: with N < W the call does not fail and zero-sample workers contribute
\* nothing: they add to no sum and are not counted in the divisor.
C7_Orig ==
    (calls < num_threads /\ ~Rejected(xl, xu) /\ CallEnded) =>
        LET informative == {w \in Producers : budget[w] > 0}
        IN /\ pc = "returned"
           /\ result.den = Cardinality(informative)
           /\ result.num = SumOver(informative, MeanOf)
           /\ error.den = Cardinality(informative)
           /\ error.radicand = SumOver(informative, ErrSqOf)

\* ----------------------------------------------------------------- C9
\* C9: the combination starts only after every thread of the team has run
\* its sampler, left its slot and freed generator and grid; once every
\* sampler has returned the call eventually returns.
C9_Barrier ==
    pc \in {"combine", "returned"} =>
        /\ live = {}
        /\ \A w \in TeamSet :
              wpc[w] = "done" /\ status[w] # "none" /\ rng[w] = 0 /\ state[w] = 0

AllSamplersReturned ==
    pc = "parallel" /\ \A w \in TeamSet : wpc[w] \in {"free", "done"}

C10_Inv ==
    /\ \A i \in 1 .. Len(writers) :
          /\ Cardinality(writers[i]) <= 1
          /\ \A w \in writers[i] : thread_id[w] = i - 1
    /\ \A w \in Started :
          /\ thread_id[w] < Len(results)
          /\ \A v \in Started : v # w => thread_id[v] # thread_id[w]
    /\ \A w \in TeamSet : \A v \in TeamSet :
          (v # w /\ rng[w] # 0) => rng[w] \notin {rng[v], state[v]}
    /\ \A w \in TeamSet : \A v \in TeamSet :
          (v # w /\ state[w] # 0) => state[w] \notin {rng[v], state[v]}
    /\ \A w \in TeamSet : (rng[w] = 0) = (state[w] = 0)
    /\ \A w \in TeamSet : rng[w] # 0 => (rng[w] # state[w] /\ {rng[w], state[w]} \subseteq live)
    /\ Cardinality(live) = 2 * Cardinality({w \in TeamSet : rng[w] # 0})

\* C10: the single-writer property holds in every state and no step writes
\* the domain bounds or the parameter record.
C10_Thm == []C10_Inv /\ [][xl' = xl /\ xu' = xu /\ par' = par]_vars

C10_Witness ==
    /\ pc = "parallel" /\ team >= 2
    /\ \A w \in TeamSet : wpc[w] = "free" /\ writers[thread_id[w] + 1] = {w}

====
